---- MODULE Spec2Model ----
(***************************************************************************)
(* The two TCP session harnesses of the repository:                        *)
(*   - cmd/create-and-play: main launches numPlayersToCreate goroutines    *)
(*     managePlayerSession under a counting semaphore and a WaitGroup;     *)
(*     each one dials, registers, joins and plays the all-in/fold loop.    *)
(*   - the register-only program: the same launch loop running             *)
(*     registerPlayer, which dials, registers and returns.                 *)
(* Time is counted in ticks of 10 seconds and passes only while a session  *)
(* is blocked under a deadline: in net.DialTimeout, in conn.Write or in    *)
(* ReadString.  Each blocking call is a position of the session; the step  *)
(* that returns from it takes what it returned as its parameter.           *)
(* A third program, the duration-bounded HTTP attacker, has its own        *)
(* specification (AttackSpec): main looks for the target game, starts      *)
(* numAttackers goroutines attackWorker, closes stopSignal once the attack *)
(* time is over and waits for the workers.                                 *)
(***************************************************************************)
EXTENDS Integers, Sequences, FiniteSets, TLC

\* ---------------------------------------------------------------- bounds
MaxPlayers == 2      \* largest numPlayersToCreate explored
MaxFolds == 2        \* folds counted in one run (caps foldsMade)
MaxChips == 2        \* largest chip count carried by a betting-turn event
MaxRequests == 3     \* requests counted in one attack (caps requestsSent)

\* ------------------------------------------------------ program constants
ConnectionTimeout == 1        \* connectionTimeout   = 10 s
ReadWriteTimeout == 1         \* readWriteTimeout    = 10 s (create-and-play)
GameActivityTimeout == 6      \* gameActivityTimeout = 60 s
RegisterDeadline == 1         \* readWriteTimeout * 2 = 10 s (register-only)
FoldAmount == -1              \* pint(-1)
RequestTimeout == 1           \* requestTimeout       = 10 s (attacker)
AttackDuration == 3           \* attackDurationSeconds = 30 s
MaxFindPlayerAttempts == 100  \* maxFindPlayerAttempts

BaseUsername == "over-"

Programs == {"play", "register"}
Ids == 0 .. (MaxPlayers - 1)

\* baseUsername + strconv.Itoa(id)
Username(id) == <<BaseUsername, id>>
NoPlayer == <<>>

VARIABLES
  prog,                     \* which program runs
  numPlayers,               \* numPlayersToCreate
  maxConc,                  \* maxConcurrentRegistrations
  mainpc,                   \* position of main
  i,                        \* main's loop variable
  wg,                       \* WaitGroup counter
  sem,                      \* number of tokens in the semaphore channel
  semClosed,                \* close(semaphore) has run
  pc,                       \* position of each session goroutine
  connOpen,                 \* the session's net.Conn is open
  hasPerformedAllIn,        \* PlayerSessionState.hasPerformedAllIn
  pending,                  \* the bet or fold gameLoop has built and is writing
  dl,                       \* ticks left until the deadline of the pending operation
  elapsed,                  \* time.Since(gameStartTime), saturated
  sent,                     \* joins and non-negative bets written to the connection
  successfulRegistrations,
  failedRegistrations,
  gamesJoined,
  allInsMade,
  foldsMade,
  report,                   \* the counters main printed
  numAttackers,             \* attacker: numAttackers
  attempt,                  \* attacker: main's attempt to find the target game
  stopClosed,               \* attacker: close(stopSignal) has run
  attackClock,              \* attacker: ticks since attackEndTime was computed, saturated
  requestsSent,
  successfulHits,
  failedHits,
  sentAtStop,               \* attacker: requestsSent as it was when stopSignal was closed
  attackReport              \* attacker: the counters main printed

vars == <<prog, numPlayers, maxConc, mainpc, i, wg, sem, semClosed, pc, connOpen,
          hasPerformedAllIn, pending, dl, elapsed, sent,
          successfulRegistrations, failedRegistrations, gamesJoined,
          allInsMade, foldsMade, report,
          numAttackers, attempt, stopClosed, attackClock,
          requestsSent, successfulHits, failedHits, sentAtStop, attackReport>>

mainVars == <<mainpc, i, wg, sem, semClosed, report>>
attackVars == <<numAttackers, attempt, stopClosed, attackClock,
                requestsSent, successfulHits, failedHits, sentAtStop, attackReport>>
\* What no step of the session harnesses changes: the configuration and
\* the state of the attacker.
cfgVars == <<prog, numPlayers, maxConc, attackVars>>
counters == <<successfulRegistrations, failedRegistrations, gamesJoined,
              allInsMade, foldsMade>>

\* ------------------------------------------------------------ wire format

EventStart == "event_player_leaderboard_entry_start"
EventBet == "action_player_bet"
EventGameOver == "event_game_over"
EventEntryEnd == "event_player_leaderboard_entry_end"
EventPotWon == "event_pot_won"
EventOther == "event_other"

EventTypes == {EventStart, EventBet, EventGameOver, EventEntryEnd, EventPotWon, EventOther}
ErrorCodes == {400, 409}
ChipValues == (-1) .. MaxChips

\* One line of the server: malformed text, or a JSON object holding the
\* fields named in has.  A field that is not in has carries no value.
MkLine(has, t, c, p, ch) ==
  [wf |-> TRUE, has |-> has,
   type |-> IF "type" \in has THEN t ELSE "",
   code |-> IF "code" \in has THEN c ELSE 0,
   player_id |-> IF "player_id" \in has THEN p ELSE NoPlayer,
   chips |-> IF "chips" \in has THEN ch ELSE 0]

Garbage == [wf |-> FALSE, has |-> {}, type |-> "", code |-> 0,
            player_id |-> NoPlayer, chips |-> 0]

\* The lines the server may send to session s: every shape of the envelope
\* the code tells apart.
Lines(s) ==
  {Garbage}
  \cup {MkLine({}, "", 0, NoPlayer, 0)}
  \cup {MkLine({"type"}, t, 0, NoPlayer, 0) : t \in EventTypes}
  \cup {MkLine({"code"}, "", c, NoPlayer, 0) : c \in ErrorCodes}
  \cup {MkLine({"type", "code"}, EventStart, 409, NoPlayer, 0)}
  \cup {MkLine({"type", "player_id"}, EventBet, 0, Username(s), 0)}
  \cup {MkLine({"type", "player_id", "chips"}, EventBet, 0, Username(s), ch) :
          ch \in ChipValues}
  \cup {MkLine({"type", "player_id", "chips"}, EventBet, 0,
               Username((s + 1) % MaxPlayers), MaxChips)}

\* json.Unmarshal into ServerResponse: a field absent from the line keeps
\* its zero value; malformed text is an error.
DecodeRequiresType(line) ==
  IF ~line.wf \/ "type" \notin line.has
  THEN [err |-> TRUE, Type |-> "", Code |-> 0, PlayerID |-> NoPlayer, Chips |-> 0]
  ELSE [err |-> FALSE,
        Type |-> line.type,
        Code |-> IF "code" \in line.has THEN line.code ELSE 0,
        PlayerID |-> IF "player_id" \in line.has THEN line.player_id ELSE NoPlayer,
        Chips |-> IF "chips" \in line.has THEN line.chips ELSE 0]
Decode(line) ==
  IF ~line.wf
  THEN [err |-> TRUE, Type |-> "", Code |-> 0, PlayerID |-> NoPlayer, Chips |-> 0]
  ELSE [err |-> FALSE,
        Type |-> IF "type" \in line.has THEN line.type ELSE "",
        Code |-> IF "code" \in line.has THEN line.code ELSE 0,
        PlayerID |-> IF "player_id" \in line.has THEN line.player_id ELSE NoPlayer,
        Chips |-> IF "chips" \in line.has THEN line.chips ELSE 0]

\* What reader.ReadString returns: a line, or an error (EOF, reset), or the
\* read deadline passing.
LinesRead == [s \in Ids |-> {[io |-> "ok", line |-> l] : l \in Lines(s)}]

ReadOutcomes(s, left) ==
  LinesRead[s]
  \cup {[io |-> "eof", line |-> Garbage]}
  \cup (IF left = 0 THEN {[io |-> "timeout", line |-> Garbage]} ELSE {})

\* readServerMessage: (resp, err)
readServerMessage(o) ==
  IF o.io # "ok"
  THEN [err |-> TRUE, Type |-> "", Code |-> 0, PlayerID |-> NoPlayer, Chips |-> 0]
  ELSE Decode(o.line)

\* What net.DialTimeout returns, and what a write under a running deadline
\* returns (for sendJSON "err" is also the failure of json.Marshal or of
\* SetWriteDeadline).
IoOutcomes(left) == {"ok", "err"} \cup (IF left = 0 THEN {"timeout"} ELSE {})

\* Outbound messages.  amount is <<>> when the Amount pointer is nil.
NoMsg == [kind |-> "none", action |-> "", amount |-> <<>>]
RegistrationMsg(id) == [kind |-> "registration", action |-> "", amount |-> <<>>]
ActionMsg(action, amount) == [kind |-> "action", action |-> action, amount |-> amount]
pint(n) == <<n>>

NoSent == [join |-> 0, bet |-> 0, other |-> 0]
NoPending == [site |-> "none", msg |-> NoMsg]

\* The wire kind of a written message: a bet with a negative amount is a fold.
WireKind(m) ==
  IF m.kind = "registration" THEN "registration"
  ELSE IF m.action = "join" /\ m.amount = <<>> THEN "join"
  ELSE IF m.action = "bet" /\ m.amount # <<>> /\ m.amount[1] < 0 THEN "fold"
  ELSE IF m.action = "bet" /\ m.amount # <<>> THEN "bet"
  ELSE "other"

\* What a session has written: the joins, the non-negative bets, and the
\* actions of any other shape than a join, a bet or a fold.
Written(rec, m) ==
  IF WireKind(m) \in {"join", "bet", "other"}
  THEN [rec EXCEPT ![WireKind(m)] = @ + 1]
  ELSE rec

Min(a, b) == IF a < b THEN a ELSE b

\* ------------------------------------------------------------------ Init
NoReport == [printed |-> FALSE, successful |-> 0, failed |-> 0, joined |-> 0,
             allIns |-> 0, folds |-> 0]
NoAttackReport == [printed |-> FALSE, sent |-> 0, successful |-> 0, failed |-> 0]

\* The attacker's variables while a session harness runs.
AttackIdle ==
  /\ numAttackers = 0
  /\ attempt = 0
  /\ stopClosed = FALSE
  /\ attackClock = 0
  /\ requestsSent = 0
  /\ successfulHits = 0
  /\ failedHits = 0
  /\ sentAtStop = 0
  /\ attackReport = NoAttackReport

Init ==
  /\ prog \in Programs
  /\ numPlayers \in 1 .. MaxPlayers
  /\ maxConc \in 1 .. numPlayers
  /\ mainpc = "add"
  /\ i = 0
  /\ wg = 0
  /\ sem = 0
  /\ semClosed = FALSE
  /\ pc = [s \in Ids |-> "idle"]
  /\ connOpen = [s \in Ids |-> FALSE]
  /\ hasPerformedAllIn = [s \in Ids |-> FALSE]
  /\ pending = [s \in Ids |-> NoPending]
  /\ dl = [s \in Ids |-> 0]
  /\ elapsed = [s \in Ids |-> 0]
  /\ sent = [s \in Ids |-> NoSent]
  /\ successfulRegistrations = 0
  /\ failedRegistrations = 0
  /\ gamesJoined = 0
  /\ allInsMade = 0
  /\ foldsMade = 0
  /\ report = NoReport
  /\ AttackIdle

\* ------------------------------------------------------------------ main
\* semaphore <- struct{}{} blocks while the channel buffer is full.
SemFullNever == FALSE
SemFull == sem >= maxConc

\* wg.Wait() returns when the counter is zero.
WaitReturnsAtOnce == TRUE
WaitReturns == wg = 0

\* for i := 0; i < numPlayersToCreate; i++ { wg.Add(1)
MainAddStopsOnFailure ==
  /\ mainpc = "add"
  /\ IF failedRegistrations > 0
     THEN /\ mainpc' = "wait"
          /\ UNCHANGED wg
     ELSE /\ wg' = wg + 1
          /\ mainpc' = "acquire"
  /\ UNCHANGED <<cfgVars, i, sem, semClosed, report, pc, connOpen, hasPerformedAllIn, pending,
                 dl, elapsed, sent, counters>>
MainAdd ==
  /\ mainpc = "add"
  /\ wg' = wg + 1
  /\ mainpc' = "acquire"
  /\ UNCHANGED <<cfgVars, i, sem, semClosed, report, pc, connOpen, hasPerformedAllIn, pending,
                 dl, elapsed, sent, counters>>

\* semaphore <- struct{}{}
MainAcquire ==
  /\ mainpc = "acquire"
  /\ ~SemFull
  /\ sem' = sem + 1
  /\ mainpc' = "go"
  /\ UNCHANGED <<cfgVars, i, wg, semClosed, report, pc, connOpen, hasPerformedAllIn, pending,
                 dl, elapsed, sent, counters>>

\* go managePlayerSession(i, &wg, semaphore) / go registerPlayer(i, &wg, semaphore);
\* the goroutine starts in net.DialTimeout.  Then i++ and the loop test.
MainGo ==
  /\ mainpc = "go"
  /\ pc' = [pc EXCEPT ![i] = "dial"]
  /\ dl' = [dl EXCEPT ![i] = ConnectionTimeout]
  /\ i' = i + 1
  /\ mainpc' = IF i + 1 < numPlayers THEN "add" ELSE "wait"
  /\ UNCHANGED <<cfgVars, wg, sem, semClosed, report, connOpen, hasPerformedAllIn, pending,
                 elapsed, sent, counters>>

\* wg.Wait()
MainWait ==
  /\ mainpc = "wait"
  /\ WaitReturns
  /\ mainpc' = "report"
  /\ UNCHANGED <<cfgVars, i, wg, sem, semClosed, report, pc, connOpen, hasPerformedAllIn, pending,
                 dl, elapsed, sent, counters>>

\* close(semaphore) and the atomic loads of the final printout.
MainReport ==
  /\ mainpc = "report"
  /\ semClosed' = TRUE
  /\ report' = [printed |-> TRUE,
                successful |-> successfulRegistrations,
                failed |-> failedRegistrations,
                joined |-> gamesJoined,
                allIns |-> allInsMade,
                folds |-> foldsMade]
  /\ mainpc' = "done"
  /\ UNCHANGED <<cfgVars, i, wg, sem, pc, connOpen, hasPerformedAllIn, pending,
                 dl, elapsed, sent, counters>>

\* -------------------------------------------------------------- sessions
\* A session blocked under a running deadline: in net.DialTimeout, in
\* conn.Write or in ReadString.  registerPlayer arms one deadline for its
\* write and its read; sendJSON and readServerMessage each arm their own.
Timed(s) == pc[s] \in {"dial", "register", "reg_read", "join", "g_read", "g_send"}

InGameLoop(s) == pc[s] \in {"g_read", "g_send"}

\* register / registerPlayer: the response is a success only by its type.
RegistrationOKByCode(resp) == resp.Code = 0
RegistrationOK(resp) == resp.Type = EventStart

\* The verdict of register and registerPlayer on (resp, err).
RegisterResultAcceptsConflict(resp) ==
  IF resp.err THEN "read_error"
  ELSE IF RegistrationOK(resp) \/ resp.Code = 409 THEN "ok"
  ELSE IF resp.Code # 0 THEN "code"
  ELSE "unexpected"
RegisterResult(resp) ==
  IF resp.err THEN "read_error"
  ELSE IF RegistrationOK(resp) THEN "ok"
  ELSE IF resp.Code # 0 THEN "code"
  ELSE "unexpected"

\* What the verdict adds to <<successfulRegistrations, failedRegistrations>>.
RegistrationCountRollsBack(result) ==
  IF result = "ok" THEN <<1, 0>> ELSE <<-1, 1>>
RegistrationCountSkipsUnexpected(result) ==
  IF result = "ok" THEN <<1, 0>>
  ELSE IF result = "unexpected" THEN <<0, 0>>
  ELSE <<0, 1>>
RegistrationCount(result) == IF result = "ok" THEN <<1, 0>> ELSE <<0, 1>>

\* gameLoop: time.Since(gameStartTime) > gameActivityTimeout
ActivityExpiredNever(e) == FALSE
ActivityExpiredLate(e) == e > GameActivityTimeout + 1
ActivityExpired(e) == e > GameActivityTimeout

\* gameLoop: case "action_player_bet" with resp.State.Player.PlayerID == ps.username
IsMyTurnAnyPlayer(id, resp) == resp.Type = EventBet
IsMyTurn(id, resp) == resp.Type = EventBet /\ resp.PlayerID = Username(id)

\* gameLoop: case "event_game_over", "event_player_leaderboard_entry_end"
IsTerminalEventGameOverOnly(resp) == resp.Type = EventGameOver
IsTerminalEvent(resp) == resp.Type \in {EventGameOver, EventEntryEnd}

\* gameLoop's choice on an own betting turn: the branch and its message.
TurnActionMinimumBet(flag, chips) ==
  IF ~flag
  THEN IF chips <= 0
       THEN [site |-> "fold_no_chips", msg |-> ActionMsg("bet", pint(FoldAmount))]
       ELSE [site |-> "all_in", msg |-> ActionMsg("bet", pint(0))]
  ELSE [site |-> "fold", msg |-> ActionMsg("bet", pint(FoldAmount))]
TurnActionBetsZero(flag, chips) ==
  IF ~flag
  THEN IF chips < 0
       THEN [site |-> "fold_no_chips", msg |-> ActionMsg("bet", pint(FoldAmount))]
       ELSE [site |-> "all_in", msg |-> ActionMsg("bet", pint(chips))]
  ELSE [site |-> "fold", msg |-> ActionMsg("bet", pint(FoldAmount))]
TurnAction(flag, chips) ==
  IF ~flag
  THEN IF chips <= 0
       THEN [site |-> "fold_no_chips", msg |-> ActionMsg("bet", pint(FoldAmount))]
       ELSE [site |-> "all_in", msg |-> ActionMsg("bet", pint(chips))]
  ELSE [site |-> "fold", msg |-> ActionMsg("bet", pint(FoldAmount))]

\* hasPerformedAllIn after the send of the given branch succeeded.
FlagAfterNeverSet(site, flag) == flag
FlagAfterSetOnFold(site, flag) == flag \/ site \in {"all_in", "fold_no_chips"}
FlagAfter(site, flag) == flag \/ site = "all_in"

\* One pass of gameLoop's switch on (resp, err): return, send, or go on.
GameStepBareErrorFatal(id, flag, resp) ==
  IF resp.err \/ (resp.Type = "" /\ resp.Code # 0)
  THEN [kind |-> "return", site |-> "read_error", msg |-> NoMsg]
  ELSE IF IsMyTurn(id, resp)
       THEN [kind |-> "send"] @@ TurnAction(flag, resp.Chips)
  ELSE IF IsTerminalEvent(resp)
       THEN [kind |-> "return", site |-> "terminal", msg |-> NoMsg]
  ELSE [kind |-> "continue", site |-> "ignored", msg |-> NoMsg]
GameStepForgetsFlag(id, flag, resp) ==
  IF resp.err THEN [kind |-> "return", site |-> "read_error", msg |-> NoMsg]
  ELSE IF IsMyTurn(id, resp)
       THEN [kind |-> "send"] @@ TurnAction(FALSE, resp.Chips)
  ELSE IF IsTerminalEvent(resp)
       THEN [kind |-> "return", site |-> "terminal", msg |-> NoMsg]
  ELSE [kind |-> "continue", site |-> "ignored", msg |-> NoMsg]
GameStep(id, flag, resp) ==
  IF resp.err THEN [kind |-> "return", site |-> "read_error", msg |-> NoMsg]
  ELSE IF IsMyTurn(id, resp)
       THEN [kind |-> "send"] @@ TurnAction(flag, resp.Chips)
  ELSE IF IsTerminalEvent(resp)
       THEN [kind |-> "return", site |-> "terminal", msg |-> NoMsg]
  ELSE [kind |-> "continue", site |-> "ignored", msg |-> NoMsg]

Goto(s, p, d) ==
  /\ pc' = [pc EXCEPT ![s] = p]
  /\ dl' = [dl EXCEPT ![s] = d]

LeaveGameSkipsClose(s) ==
  /\ Goto(s, "release", 0)
  /\ elapsed' = [elapsed EXCEPT ![s] = 0]
LeaveGameRegistersAgain(s) ==
  /\ Goto(s, "register", 0)
  /\ elapsed' = [elapsed EXCEPT ![s] = 0]
\* managePlayerSession's body returns; gameStartTime goes out of scope.
LeaveGame(s) ==
  /\ Goto(s, "close", 0)
  /\ elapsed' = [elapsed EXCEPT ![s] = 0]

\* Top of gameLoop's for, e after gameStartTime: the activity check, then
\* readServerMessage arms the read deadline and blocks in ReadString.
LoopTopKeepsDeadline(s, e) ==
  IF ActivityExpired(e)
  THEN LeaveGame(s)
  ELSE /\ Goto(s, "g_read", dl[s])
       /\ elapsed' = [elapsed EXCEPT ![s] = e]
LoopTop(s, e) ==
  IF ActivityExpired(e)
  THEN LeaveGame(s)
  ELSE /\ Goto(s, "g_read", ReadWriteTimeout)
       /\ elapsed' = [elapsed EXCEPT ![s] = e]

\* managePlayerSession: net.DialTimeout returns r; on success register calls
\* sendJSON(regMsg), which arms the write deadline and blocks in conn.Write.
managePlayerSession_Dial(s, r) ==
  /\ prog = "play"
  /\ pc[s] = "dial"
  /\ IF r = "ok"
     THEN /\ connOpen' = [connOpen EXCEPT ![s] = TRUE]
          /\ Goto(s, "register", ReadWriteTimeout)
          /\ UNCHANGED failedRegistrations
     ELSE /\ failedRegistrations' = failedRegistrations + 1
          /\ Goto(s, "release", 0)
          /\ UNCHANGED connOpen
  /\ UNCHANGED <<cfgVars, mainVars, hasPerformedAllIn, pending, elapsed, sent,
                 successfulRegistrations, gamesJoined, allInsMade, foldsMade>>

\* register: sendJSON(regMsg) returns w; on success readServerMessage blocks.
register_Send(s, w) ==
  /\ prog = "play"
  /\ pc[s] = "register"
  /\ IF w = "ok"
     THEN /\ Goto(s, "reg_read", ReadWriteTimeout)
          /\ UNCHANGED failedRegistrations
     ELSE /\ failedRegistrations' = failedRegistrations + 1
          /\ Goto(s, "close", 0)
  /\ UNCHANGED <<cfgVars, mainVars, connOpen, hasPerformedAllIn, pending, elapsed, sent,
                 successfulRegistrations, gamesJoined, allInsMade, foldsMade>>

\* register: readServerMessage returns o and the response is judged; on
\* success managePlayerSession counts the registration and joinGame calls
\* sendJSON(joinMsg), which arms the write deadline and blocks in conn.Write.
register_Read(s, o) ==
  /\ prog = "play"
  /\ pc[s] = "reg_read"
  /\ \E result \in {RegisterResult(readServerMessage(o))} :
       /\ successfulRegistrations' = successfulRegistrations + RegistrationCount(result)[1]
       /\ failedRegistrations' = failedRegistrations + RegistrationCount(result)[2]
       /\ IF result = "ok" THEN Goto(s, "join", ReadWriteTimeout) ELSE Goto(s, "close", 0)
  /\ UNCHANGED <<cfgVars, mainVars, connOpen, hasPerformedAllIn, pending, elapsed, sent,
                 gamesJoined, allInsMade, foldsMade>>

\* joinGame: joinMsg := ActionMsg{Action: "join"}, Amount left nil.
joinMsgWithAmount == ActionMsg("join", pint(0))
joinMsg == ActionMsg("join", <<>>)

\* joinGame: sendJSON(joinMsg) returns w; on success the join is counted and
\* gameLoop starts: gameStartTime := time.Now(), then the top of the loop.
joinGameCountsAlways(s, w) ==
  /\ prog = "play"
  /\ pc[s] = "join"
  /\ gamesJoined' = gamesJoined + 1
  /\ IF w = "ok"
     THEN /\ sent' = [sent EXCEPT ![s] = Written(@, joinMsg)]
          /\ LoopTop(s, 0)
     ELSE /\ LeaveGame(s)
          /\ UNCHANGED sent
  /\ UNCHANGED <<cfgVars, mainVars, connOpen, hasPerformedAllIn, pending,
                 successfulRegistrations, failedRegistrations, allInsMade, foldsMade>>
joinGame(s, w) ==
  /\ prog = "play"
  /\ pc[s] = "join"
  /\ IF w = "ok"
     THEN /\ sent' = [sent EXCEPT ![s] = Written(@, joinMsg)]
          /\ gamesJoined' = gamesJoined + 1
          /\ LoopTop(s, 0)
     ELSE /\ LeaveGame(s)
          /\ UNCHANGED <<sent, gamesJoined>>
  /\ UNCHANGED <<cfgVars, mainVars, connOpen, hasPerformedAllIn, pending,
                 successfulRegistrations, failedRegistrations, allInsMade, foldsMade>>

\* gameLoop: readServerMessage returns o and the switch on resp.Type runs;
\* on an own betting turn the action is built and sendJSON arms the write
\* deadline and blocks in conn.Write.
gameLoop_ReadCountsReadError(s, o) ==
  /\ prog = "play"
  /\ pc[s] = "g_read"
  /\ \E step \in {GameStep(s, hasPerformedAllIn[s], readServerMessage(o))} :
       IF step.kind = "return"
       THEN /\ LeaveGame(s)
            /\ failedRegistrations' =
                 IF step.site = "read_error" THEN failedRegistrations + 1
                 ELSE failedRegistrations
            /\ UNCHANGED pending
       ELSE IF step.kind = "continue"
       THEN /\ LoopTop(s, elapsed[s])
            /\ UNCHANGED <<pending, failedRegistrations>>
       ELSE /\ Goto(s, "g_send", ReadWriteTimeout)
            /\ pending' = [pending EXCEPT ![s] = [site |-> step.site, msg |-> step.msg]]
            /\ UNCHANGED <<elapsed, failedRegistrations>>
  /\ UNCHANGED <<cfgVars, mainVars, connOpen, hasPerformedAllIn, sent,
                 successfulRegistrations, gamesJoined, allInsMade, foldsMade>>
gameLoop_Read(s, o) ==
  /\ prog = "play"
  /\ pc[s] = "g_read"
  /\ \E step \in {GameStep(s, hasPerformedAllIn[s], readServerMessage(o))} :
       IF step.kind = "return"
       THEN /\ LeaveGame(s)
            /\ UNCHANGED pending
       ELSE IF step.kind = "continue"
       THEN /\ LoopTop(s, elapsed[s])
            /\ UNCHANGED pending
       ELSE /\ Goto(s, "g_send", ReadWriteTimeout)
            /\ pending' = [pending EXCEPT ![s] = [site |-> step.site, msg |-> step.msg]]
            /\ UNCHANGED elapsed
  /\ UNCHANGED <<cfgVars, mainVars, connOpen, hasPerformedAllIn, sent, counters>>

\* gameLoop: sendJSON of the bet or fold returns w; on success the action is
\* counted, the all-in sets the flag, and the loop goes on from its top; on
\* failure gameLoop returns.
gameLoop_SendCountsBeforeSend(s, w) ==
  /\ prog = "play"
  /\ pc[s] = "g_send"
  /\ pending' = [pending EXCEPT ![s] = NoPending]
  /\ pending[s].site # "all_in" => foldsMade < MaxFolds
  /\ allInsMade' = IF pending[s].site = "all_in" THEN allInsMade + 1 ELSE allInsMade
  /\ foldsMade' = IF pending[s].site = "all_in" THEN foldsMade ELSE foldsMade + 1
  /\ hasPerformedAllIn' =
       [hasPerformedAllIn EXCEPT ![s] = FlagAfter(pending[s].site, @)]
  /\ IF w = "ok"
     THEN /\ sent' = [sent EXCEPT ![s] = Written(@, pending[s].msg)]
          /\ LoopTop(s, elapsed[s])
     ELSE /\ LeaveGame(s)
          /\ UNCHANGED sent
  /\ UNCHANGED <<cfgVars, mainVars, connOpen,
                 successfulRegistrations, failedRegistrations, gamesJoined>>
gameLoop_Send(s, w) ==
  /\ prog = "play"
  /\ pc[s] = "g_send"
  /\ pending' = [pending EXCEPT ![s] = NoPending]
  /\ IF w = "ok"
     THEN /\ pending[s].site # "all_in" => foldsMade < MaxFolds
          /\ sent' = [sent EXCEPT ![s] = Written(@, pending[s].msg)]
          /\ allInsMade' = IF pending[s].site = "all_in" THEN allInsMade + 1 ELSE allInsMade
          /\ foldsMade' = IF pending[s].site = "all_in" THEN foldsMade ELSE foldsMade + 1
          /\ hasPerformedAllIn' =
               [hasPerformedAllIn EXCEPT ![s] = FlagAfter(pending[s].site, @)]
          /\ LoopTop(s, elapsed[s])
     ELSE /\ LeaveGame(s)
          /\ UNCHANGED <<hasPerformedAllIn, sent, allInsMade, foldsMade>>
  /\ UNCHANGED <<cfgVars, mainVars, connOpen,
                 successfulRegistrations, failedRegistrations, gamesJoined>>

\* registerPlayer: net.DialTimeout returns r; then conn.SetDeadline and
\* json.Marshal, either of which may fail (setup).
registerPlayer_Dial(s, r, setup) ==
  /\ prog = "register"
  /\ pc[s] = "dial"
  /\ r # "ok" => setup = "ok"
  /\ IF r # "ok"
     THEN /\ failedRegistrations' = failedRegistrations + 1
          /\ Goto(s, "release", 0)
          /\ UNCHANGED connOpen
     ELSE IF setup # "ok"
     THEN /\ connOpen' = [connOpen EXCEPT ![s] = TRUE]
          /\ failedRegistrations' = failedRegistrations + 1
          /\ Goto(s, "close", 0)
     ELSE /\ connOpen' = [connOpen EXCEPT ![s] = TRUE]
          /\ Goto(s, "register", RegisterDeadline)
          /\ UNCHANGED failedRegistrations
  /\ UNCHANGED <<cfgVars, mainVars, hasPerformedAllIn, pending, elapsed, sent,
                 successfulRegistrations, gamesJoined, allInsMade, foldsMade>>

\* registerPlayer: conn.Write returns r; the deadline armed once keeps
\* running while reader.ReadString blocks.
registerPlayer_Write(s, r) ==
  /\ prog = "register"
  /\ pc[s] = "register"
  /\ IF r = "ok"
     THEN /\ Goto(s, "reg_read", dl[s])
          /\ UNCHANGED failedRegistrations
     ELSE /\ failedRegistrations' = failedRegistrations + 1
          /\ Goto(s, "close", 0)
  /\ UNCHANGED <<cfgVars, mainVars, connOpen, hasPerformedAllIn, pending, elapsed, sent,
                 successfulRegistrations, gamesJoined, allInsMade, foldsMade>>

\* registerPlayer: ReadString and json.Unmarshal return o and the response
\* is judged; the function returns either way.
registerPlayer_Read(s, o) ==
  /\ prog = "register"
  /\ pc[s] = "reg_read"
  /\ \E result \in {RegisterResult(readServerMessage(o))} :
       /\ successfulRegistrations' = successfulRegistrations + RegistrationCount(result)[1]
       /\ failedRegistrations' = failedRegistrations + RegistrationCount(result)[2]
  /\ Goto(s, "close", 0)
  /\ UNCHANGED <<cfgVars, mainVars, connOpen, hasPerformedAllIn, pending, elapsed, sent,
                 gamesJoined, allInsMade, foldsMade>>

ConnCloseLeavesOpen(s) ==
  /\ pc[s] = "close"
  /\ pc' = [pc EXCEPT ![s] = "release"]
  /\ UNCHANGED <<cfgVars, mainVars, connOpen, hasPerformedAllIn, pending, dl, elapsed, sent, counters>>

\* defer conn.Close()
ConnClose(s) ==
  /\ pc[s] = "close"
  /\ connOpen' = [connOpen EXCEPT ![s] = FALSE]
  /\ pc' = [pc EXCEPT ![s] = "release"]
  /\ UNCHANGED <<cfgVars, mainVars, hasPerformedAllIn, pending, dl, elapsed, sent, counters>>

\* defer func() { <-semaphore }(): blocks on an empty open channel.
SemRelease(s) ==
  /\ pc[s] = "release"
  /\ sem > 0 \/ semClosed
  /\ sem' = IF sem > 0 THEN sem - 1 ELSE sem
  /\ pc' = [pc EXCEPT ![s] = "done"]
  /\ UNCHANGED <<cfgVars, mainpc, i, wg, semClosed, report, connOpen, hasPerformedAllIn, pending,
                 dl, elapsed, sent, counters>>

\* defer wg.Done(); the goroutine ends.
WgDone(s) ==
  /\ pc[s] = "done"
  /\ wg' = wg - 1
  /\ pc' = [pc EXCEPT ![s] = "exited"]
  /\ UNCHANGED <<cfgVars, mainpc, i, sem, semClosed, report, connOpen, hasPerformedAllIn, pending,
                 dl, elapsed, sent, counters>>

\* The clock of a game loop stops counting one tick beyond the longest time
\* a pass started in time can take: one read and one write.
ElapsedCap == GameActivityTimeout + 2 * ReadWriteTimeout + 1

\* Ten seconds pass.  Time does not pass beyond the deadline of a blocked
\* operation: the operation returns (possibly with a timeout) first.
Tick ==
  /\ \E s \in Ids : Timed(s)
  /\ \A s \in Ids : Timed(s) => dl[s] > 0
  /\ dl' = [s \in Ids |-> IF Timed(s) THEN dl[s] - 1 ELSE dl[s]]
  /\ elapsed' = [s \in Ids |-> IF InGameLoop(s)
                               THEN Min(elapsed[s] + 1, ElapsedCap)
                               ELSE elapsed[s]]
  /\ UNCHANGED <<cfgVars, mainVars, pc, connOpen, hasPerformedAllIn, pending, sent, counters>>

\* The steps of session s, each over everything its blocking call may return.
Session(s) ==
  \/ /\ pc[s] = "dial"
     /\ \E r \in IoOutcomes(dl[s]) : managePlayerSession_Dial(s, r)
  \/ /\ pc[s] = "register"
     /\ \E w \in IoOutcomes(dl[s]) : register_Send(s, w)
  \/ /\ pc[s] = "reg_read"
     /\ \E o \in ReadOutcomes(s, dl[s]) : register_Read(s, o)
  \/ /\ pc[s] = "join"
     /\ \E w \in IoOutcomes(dl[s]) : joinGame(s, w)
  \/ /\ pc[s] = "g_read"
     /\ \E o \in ReadOutcomes(s, dl[s]) : gameLoop_Read(s, o)
  \/ /\ pc[s] = "g_send"
     /\ \E w \in IoOutcomes(dl[s]) : gameLoop_Send(s, w)
  \/ /\ pc[s] = "dial"
     /\ \E r \in IoOutcomes(dl[s]), setup \in {"ok", "deadline_err", "marshal_err"} :
          registerPlayer_Dial(s, r, setup)
  \/ /\ pc[s] = "register"
     /\ \E r \in IoOutcomes(dl[s]) : registerPlayer_Write(s, r)
  \/ /\ pc[s] = "reg_read"
     /\ \E o \in ReadOutcomes(s, dl[s]) : registerPlayer_Read(s, o)
  \/ ConnClose(s)
  \/ SemRelease(s)
  \/ WgDone(s)

Main == MainAdd \/ MainAcquire \/ MainGo \/ MainWait \/ MainReport

Next == Main \/ (\E s \in Ids : Session(s)) \/ Tick

Spec == Init /\ [][Next]_vars

\* Scheduling: every goroutine that can run eventually does, every blocked
\* operation returns or times out, and the clock advances.
FairSpec ==
  /\ Spec
  /\ WF_vars(Main)
  /\ \A s \in Ids : WF_vars(Session(s))
  /\ WF_vars(Tick)

\* -------------------------------------------------------------- attacker
\* The variables of the session harnesses the attacker does not use.
harnessOnly == <<numPlayers, maxConc, sem, semClosed, connOpen, hasPerformedAllIn, pending,
                 elapsed, sent, counters, report>>

AttackInit ==
  /\ prog = "attack"
  /\ numPlayers = 0
  /\ maxConc = 0
  /\ mainpc = "find"
  /\ i = 0
  /\ wg = 0
  /\ sem = 0
  /\ semClosed = FALSE
  /\ pc = [s \in Ids |-> "idle"]
  /\ connOpen = [s \in Ids |-> FALSE]
  /\ hasPerformedAllIn = [s \in Ids |-> FALSE]
  /\ pending = [s \in Ids |-> NoPending]
  /\ dl = [s \in Ids |-> 0]
  /\ elapsed = [s \in Ids |-> 0]
  /\ sent = [s \in Ids |-> NoSent]
  /\ successfulRegistrations = 0
  /\ failedRegistrations = 0
  /\ gamesJoined = 0
  /\ allInsMade = 0
  /\ foldsMade = 0
  /\ report = NoReport
  /\ numAttackers \in 1 .. MaxPlayers
  /\ attempt = 1
  /\ stopClosed = FALSE
  /\ attackClock = 0
  /\ requestsSent = 0
  /\ successfulHits = 0
  /\ failedHits = 0
  /\ sentAtStop = 0
  /\ attackReport = NoAttackReport

\* What findTargetPlayerGameIDInCurrentList returns: a game id, "" with no
\* error, or an error.
FindOutcomes == {"found", "not_found", "error"}

\* What client.Get returns to a worker: 200, another status, an error, or
\* the client timeout.
GetOutcomes(left) ==
  {"ok200", "non200", "err"} \cup (IF left = 0 THEN {"timeout"} ELSE {})

\* main: time.Now().After(attackEndTime), c ticks after it was computed.
AttackTimeOverAtOnce(c) == TRUE
AttackTimeOver(c) == c > AttackDuration

\* attackWorker's select: case <-stopSignal is ready once the channel is closed.
StopObservedNever == FALSE
StopObserved == stopClosed

\* main: one attempt of the loop that looks for the target player's game;
\* after the last attempt without a game, os.Exit(1).  The loop variable
\* does not outlive the loop.
attackMain_Find(r) ==
  /\ mainpc = "find"
  /\ IF r = "found"
     THEN /\ mainpc' = "a_add"
          /\ attempt' = 0
     ELSE IF attempt < MaxFindPlayerAttempts
     THEN /\ attempt' = attempt + 1
          /\ UNCHANGED mainpc
     ELSE /\ mainpc' = "exit1"
          /\ attempt' = 0
  /\ UNCHANGED <<prog, harnessOnly, i, wg, pc, dl, numAttackers, stopClosed, attackClock,
                 requestsSent, successfulHits, failedHits, sentAtStop, attackReport>>

\* main: for i := 0; i < numAttackers; i++ { wg.Add(1)
attackMain_Add ==
  /\ mainpc = "a_add"
  /\ wg' = wg + 1
  /\ mainpc' = "a_go"
  /\ UNCHANGED <<prog, harnessOnly, i, pc, dl, attackVars>>

\* main: go attackWorker(...); i++ and the loop test; after the loop
\* attackEndTime is computed and the ticker started.
attackMain_Go ==
  /\ mainpc = "a_go"
  /\ pc' = [pc EXCEPT ![i] = "select"]
  /\ i' = i + 1
  /\ mainpc' = IF i + 1 < numAttackers THEN "a_add" ELSE "a_loop"
  /\ UNCHANGED <<prog, harnessOnly, wg, dl, attackVars>>

\* main: a tick of the ticker after the attack time is over ends the loop.
\* A tick before that changes nothing, and nothing sends on stopSignal.
attackMain_Ticker ==
  /\ mainpc = "a_loop"
  /\ AttackTimeOver(attackClock)
  /\ mainpc' = "a_close"
  /\ UNCHANGED <<prog, harnessOnly, i, wg, pc, dl, attackVars>>

\* main: close(stopSignal); then wg.Wait() blocks.
attackMain_Close ==
  /\ mainpc = "a_close"
  /\ stopClosed' = TRUE
  /\ sentAtStop' = requestsSent
  /\ mainpc' = "wait"
  /\ UNCHANGED <<prog, harnessOnly, i, wg, pc, dl, numAttackers, attempt, attackClock,
                 requestsSent, successfulHits, failedHits, attackReport>>

\* main: the atomic loads of the final printout.
attackMain_Report ==
  /\ prog = "attack"
  /\ mainpc = "report"
  /\ attackReport' = [printed |-> TRUE, sent |-> requestsSent,
                      successful |-> successfulHits, failed |-> failedHits]
  /\ mainpc' = "done"
  /\ UNCHANGED <<prog, harnessOnly, i, wg, pc, dl, numAttackers, attempt, stopClosed,
                 attackClock, requestsSent, successfulHits, failedHits, sentAtStop>>

\* attackWorker: the select at the top of the loop.
attackWorker_Select(w) ==
  /\ prog = "attack"
  /\ pc[w] = "select"
  /\ IF StopObserved
     THEN pc' = [pc EXCEPT ![w] = "done"]
     ELSE /\ requestsSent < MaxRequests
          /\ pc' = [pc EXCEPT ![w] = "count"]
  /\ UNCHANGED <<prog, harnessOnly, mainpc, i, wg, dl, attackVars>>

\* attackWorker: atomic.AddInt64(&requestsSent, 1), then client.Get blocks.
attackWorker_Count(w) ==
  /\ prog = "attack"
  /\ pc[w] = "count"
  /\ requestsSent' = requestsSent + 1
  /\ pc' = [pc EXCEPT ![w] = "get"]
  /\ dl' = [dl EXCEPT ![w] = RequestTimeout]
  /\ UNCHANGED <<prog, harnessOnly, mainpc, i, wg, numAttackers, attempt, stopClosed,
                 attackClock, successfulHits, failedHits, sentAtStop, attackReport>>

\* attackWorker: client.Get returns r and the hit is counted; after an
\* error the worker sleeps.
attackWorker_GetDropsNon200(w, r) ==
  /\ prog = "attack"
  /\ pc[w] = "get"
  /\ successfulHits' = IF r = "ok200" THEN successfulHits + 1 ELSE successfulHits
  /\ failedHits' = IF r \in {"ok200", "non200"} THEN failedHits ELSE failedHits + 1
  /\ pc' = [pc EXCEPT ![w] = IF r \in {"ok200", "non200"} THEN "select" ELSE "sleep"]
  /\ dl' = [dl EXCEPT ![w] = 0]
  /\ UNCHANGED <<prog, harnessOnly, mainpc, i, wg, numAttackers, attempt, stopClosed,
                 attackClock, requestsSent, sentAtStop, attackReport>>
attackWorker_Get(w, r) ==
  /\ prog = "attack"
  /\ pc[w] = "get"
  /\ successfulHits' = IF r = "ok200" THEN successfulHits + 1 ELSE successfulHits
  /\ failedHits' = IF r = "ok200" THEN failedHits ELSE failedHits + 1
  /\ pc' = [pc EXCEPT ![w] = IF r \in {"ok200", "non200"} THEN "select" ELSE "sleep"]
  /\ dl' = [dl EXCEPT ![w] = 0]
  /\ UNCHANGED <<prog, harnessOnly, mainpc, i, wg, numAttackers, attempt, stopClosed,
                 attackClock, requestsSent, sentAtStop, attackReport>>

\* attackWorker: time.Sleep(50 * time.Millisecond); continue
attackWorker_Sleep(w) ==
  /\ prog = "attack"
  /\ pc[w] = "sleep"
  /\ pc' = [pc EXCEPT ![w] = "select"]
  /\ UNCHANGED <<prog, harnessOnly, mainpc, i, wg, dl, attackVars>>

\* Ten seconds pass for the attacker: not beyond the timeout of a request
\* in flight, nor more than a tick of the ticker beyond the attack end.
AttackTick ==
  /\ prog = "attack"
  /\ mainpc = "a_loop" \/ \E w \in Ids : pc[w] = "get"
  /\ \A w \in Ids : pc[w] = "get" => dl[w] > 0
  /\ mainpc = "a_loop" => ~AttackTimeOver(attackClock)
  /\ dl' = [w \in Ids |-> IF pc[w] = "get" THEN dl[w] - 1 ELSE dl[w]]
  /\ attackClock' = IF mainpc = "a_loop" THEN attackClock + 1 ELSE attackClock
  /\ UNCHANGED <<prog, harnessOnly, mainpc, i, wg, pc, numAttackers, attempt, stopClosed,
                 requestsSent, successfulHits, failedHits, sentAtStop, attackReport>>

AttackWorker(w) ==
  \/ attackWorker_Select(w)
  \/ attackWorker_Count(w)
  \/ /\ pc[w] = "get"
     /\ \E r \in GetOutcomes(dl[w]) : attackWorker_Get(w, r)
  \/ attackWorker_Sleep(w)
  \/ prog = "attack" /\ WgDone(w)

AttackMain ==
  \/ \E r \in FindOutcomes : attackMain_Find(r)
  \/ attackMain_Add
  \/ attackMain_Go
  \/ attackMain_Ticker
  \/ attackMain_Close
  \/ prog = "attack" /\ MainWait
  \/ attackMain_Report

AttackNext == AttackMain \/ (\E w \in Ids : AttackWorker(w)) \/ AttackTick

AttackSpec == AttackInit /\ [][AttackNext]_vars

\* Scheduling of the attacker: every goroutine that can run eventually
\* does, every request returns or times out, and the clock advances.
FairAttackSpec ==
  /\ AttackSpec
  /\ WF_vars(AttackMain)
  /\ \A w \in Ids : WF_vars(AttackWorker(w))
  /\ WF_vars(AttackTick)

\* Any of the three programs.
AnyInit == Init \/ AttackInit
AnyNext == (prog \in Programs /\ Next) \/ (prog = "attack" /\ AttackNext)
AnySpec == AnyInit /\ [][AnyNext]_vars

\* ---------------------------------------------------------------- claims
\* The states of the session state machine.
Phase(p) ==
  CASE p = "idle" -> "NotLaunched"
    [] p = "dial" -> "Connecting"
    [] p \in {"register", "reg_read"} -> "Registering"
    [] p = "join" -> "Joining"
    [] p \in {"g_read", "g_send"} -> "Interacting"
    [] OTHER -> "Terminated"

Rank(p) ==
  CASE p = "idle" -> 0
    [] p = "dial" -> 1
    [] p \in {"register", "reg_read"} -> 2
    [] p = "join" -> 3
    [] p \in {"g_read", "g_send"} -> 4
    [] OTHER -> 5

\* Sessions launched that have not yet released their admission slot.
InFlight == {s \in Ids : pc[s] \notin {"idle", "done", "exited"}}

\* Sessions whose registration has been decided (counted).
Decided == {s \in Ids : pc[s] \in {"join", "g_read", "g_send", "close", "release", "done",
                                   "exited"}}

Launched == {s \in Ids : s < numPlayers}

\* C1: at most maxConc sessions are launched and have not released their
\* slot; main gets past the semaphore send only when fewer than maxConc are
\* in flight, and is blocked there while maxConc are.
C1_AdmissionBound ==
  /\ Cardinality(InFlight) <= maxConc
  /\ mainpc = "go" => Cardinality(InFlight) < maxConc
  /\ (mainpc = "acquire" /\ Cardinality(InFlight) = maxConc) => ~ENABLED MainAcquire

C1_Witness ==
  /\ mainpc = "acquire"
  /\ numPlayers > maxConc
  /\ i >= maxConc
  /\ Cardinality(InFlight) = maxConc

\* C2: each session increments exactly one of the two registration
\* counters, once, when its registration is decided; after the run their
\* sum is numPlayers.
C2_OneCountPerSession ==
  /\ successfulRegistrations + failedRegistrations = Cardinality(Decided)
  /\ mainpc = "done" =>
       /\ successfulRegistrations + failedRegistrations = numPlayers
       /\ report.successful + report.failed = numPlayers

C2_Witness ==
  /\ mainpc = "done"
  /\ numPlayers = MaxPlayers
  /\ report.successful >= 1
  /\ report.failed >= 1

\* C3: once main is past wg.Wait every launched session has ended, so the
\* counters it prints are the final ones.
C3_ReportAfterJoin ==
  mainpc \in {"report", "done"} =>
    /\ \A s \in Launched : pc[s] = "exited"
    /\ report.printed =>
         /\ report.successful = successfulRegistrations
         /\ report.failed = failedRegistrations
         /\ report.joined = gamesJoined
         /\ report.allIns = allInsMade
         /\ report.folds = foldsMade

C3_Witness ==
  /\ mainpc = "done"
  /\ report.printed
  /\ numPlayers = MaxPlayers
  /\ report.joined = numPlayers
  /\ report.allIns >= 1

\* C4: under fair scheduling every launched session ends, and ends for
\* good, so main gets past wg.Wait and prints its report.
C4_EverySessionTerminates ==
  /\ \A s \in Ids : (pc[s] = "dial") ~> (pc[s] = "exited")
  /\ \A s \in Ids : [](pc[s] = "exited" => [](pc[s] = "exited"))
  /\ <>(mainpc = "done" /\ report.printed)

C4_Witness ==
  /\ mainpc = "done"
  /\ report.printed
  /\ numPlayers = MaxPlayers
  /\ report.joined = numPlayers
  /\ \A s \in Launched : pc[s] = "exited"

\* C5: a session only moves forward through Connecting, Registering,
\* Joining, Interacting, Terminated; once Terminated it stays Terminated,
\* sends nothing and changes no counter, and a counter only changes in a
\* step of a session that is launched and not Terminated.
C5_ForwardOnly ==
  [][/\ \A s \in Ids :
          /\ Rank(pc'[s]) >= Rank(pc[s])
          /\ Phase(pc[s]) = "Terminated" =>
               /\ Phase(pc'[s]) = "Terminated"
               /\ sent'[s] = sent[s]
               /\ hasPerformedAllIn'[s] = hasPerformedAllIn[s]
               /\ pc'[s] # pc[s] => counters' = counters
     /\ counters' # counters =>
          \E s \in Ids :
            /\ Phase(pc[s]) \notin {"NotLaunched", "Terminated"}
            /\ pc'[s] # pc[s]
            /\ \A t \in Ids \ {s} : pc'[t] = pc[t]]_vars

C5_Witness ==
  \E s \in Ids :
    /\ pc[s] = "exited"
    /\ sent[s].join = 1
    /\ sent[s].bet = 1
    /\ hasPerformedAllIn[s]

\* The line of outcome o as it is on the wire.
WireType(o) == IF o.io = "ok" /\ o.line.wf /\ "type" \in o.line.has THEN o.line.type ELSE ""
WireCode(o) == IF o.io = "ok" /\ o.line.wf /\ "code" \in o.line.has THEN o.line.code ELSE 0
WireChips(o) == IF o.io = "ok" /\ o.line.wf /\ "chips" \in o.line.has THEN o.line.chips ELSE 0
WireOwnTurn(s, o) ==
  /\ WireType(o) = EventBet
  /\ "player_id" \in o.line.has
  /\ o.line.player_id = Username(s)

\* C6 as stated: the registration read succeeds exactly when the line read
\* has type event_player_leaderboard_entry_start: then
\* successfulRegistrations grows by one and the session goes on to Joining;
\* for every other outcome failedRegistrations grows by one and the session
\* is Terminated.
C6_SuccessAdvancesToJoining ==
  [][\A s \in Ids : \A o \in ReadOutcomes(s, 0) :
       (pc[s] = "reg_read" /\ (register_Read(s, o) \/ registerPlayer_Read(s, o))) =>
          IF WireType(o) = EventStart
          THEN /\ successfulRegistrations' = successfulRegistrations + 1
               /\ failedRegistrations' = failedRegistrations
               /\ Phase(pc'[s]) = "Joining"
          ELSE /\ failedRegistrations' = failedRegistrations + 1
               /\ successfulRegistrations' = successfulRegistrations
               /\ Phase(pc'[s]) = "Terminated"]_vars

\* C6: the registration read succeeds exactly when the line read has type
\* event_player_leaderboard_entry_start: then successfulRegistrations grows
\* by one, the playing session goes on to Joining and the session of the
\* register-only program, which has no join, is Terminated with its
\* connection still to be closed; for every other outcome
\* failedRegistrations grows by one and the session is Terminated.
C6_SuccessIffStartType ==
  [][\A s \in Ids : \A o \in ReadOutcomes(s, 0) :
       (pc[s] = "reg_read" /\ (register_Read(s, o) \/ registerPlayer_Read(s, o))) =>
          IF WireType(o) = EventStart
          THEN /\ successfulRegistrations' = successfulRegistrations + 1
               /\ failedRegistrations' = failedRegistrations
               /\ prog = "play" => Phase(pc'[s]) = "Joining"
               /\ prog = "register" => pc'[s] = "close"
          ELSE /\ failedRegistrations' = failedRegistrations + 1
               /\ successfulRegistrations' = successfulRegistrations
               /\ Phase(pc'[s]) = "Terminated"]_vars

C6_Witness ==
  \E s \in Ids :
    /\ prog = "register"
    /\ numPlayers = 1
    /\ pc[s] = "close"
    /\ connOpen[s]
    /\ successfulRegistrations = 1
    /\ failedRegistrations = 0

\* C7 as stated: a registration response with a non-zero code is a failure
\* whatever else it carries.
C7_NonZeroCodeFails ==
  [][\A s \in Ids : \A o \in ReadOutcomes(s, 0) :
       (pc[s] = "reg_read" /\ WireCode(o) # 0
          /\ (register_Read(s, o) \/ registerPlayer_Read(s, o))) =>
          /\ failedRegistrations' = failedRegistrations + 1
          /\ successfulRegistrations' = successfulRegistrations
          /\ Phase(pc'[s]) = "Terminated"
          /\ sent'[s] = NoSent]_vars

\* C7: a registration response with a non-zero code whose type is not
\* event_player_leaderboard_entry_start is a failure: failedRegistrations
\* grows by one, the session is Terminated and has sent no join.
C7_NonZeroCodeFailsUnlessStart ==
  [][\A s \in Ids : \A o \in ReadOutcomes(s, 0) :
       (pc[s] = "reg_read" /\ WireCode(o) # 0 /\ WireType(o) # EventStart
          /\ (register_Read(s, o) \/ registerPlayer_Read(s, o))) =>
          /\ failedRegistrations' = failedRegistrations + 1
          /\ successfulRegistrations' = successfulRegistrations
          /\ Phase(pc'[s]) = "Terminated"
          /\ sent'[s] = NoSent]_vars

C7_Witness ==
  \E s \in Ids :
    /\ prog = "play"
    /\ numPlayers = 1
    /\ pc[s] = "close"
    /\ connOpen[s]
    /\ failedRegistrations = 1
    /\ sent[s] = NoSent

\* C8: on an own betting turn with the flag unset and chips > 0 the session
\* builds a bet of exactly its chips and writes it; when the write succeeds
\* that is its one bet, allInsMade grows by one and the flag is set.
C8_AllInOnFirstTurn ==
  [][\A s \in Ids :
       /\ \A o \in ReadOutcomes(s, 0) :
            (pc[s] = "g_read" /\ ~hasPerformedAllIn[s] /\ WireOwnTurn(s, o)
               /\ WireChips(o) > 0 /\ gameLoop_Read(s, o)) =>
               /\ pc'[s] = "g_send"
               /\ pending'[s].site = "all_in"
               /\ pending'[s].msg
                    = [kind |-> "action", action |-> "bet", amount |-> <<WireChips(o)>>]
               /\ UNCHANGED <<sent, counters, hasPerformedAllIn>>
       /\ (pc[s] = "g_send" /\ pending[s].site = "all_in" /\ gameLoop_Send(s, "ok")) =>
            /\ sent'[s].bet = sent[s].bet + 1
            /\ allInsMade' = allInsMade + 1
            /\ foldsMade' = foldsMade
            /\ hasPerformedAllIn'[s]]_vars

C8_Witness ==
  \E s \in Ids :
    /\ numPlayers = 1
    /\ pc[s] = "g_read"
    /\ hasPerformedAllIn[s]
    /\ sent[s].bet = 1
    /\ allInsMade = 1
    /\ foldsMade = 0

\* C9: on an own betting turn with the flag unset and chips <= 0 the
\* session builds a fold (a bet of -1) and writes it; when the write
\* succeeds foldsMade grows by one; allInsMade does not change and the flag
\* stays unset, so the all-in branch is still the one a later turn with
\* chips takes.
C9_FoldWithoutChips ==
  [][\A s \in Ids :
       /\ \A o \in ReadOutcomes(s, 0) :
            (pc[s] = "g_read" /\ ~hasPerformedAllIn[s] /\ WireOwnTurn(s, o)
               /\ WireChips(o) <= 0 /\ gameLoop_Read(s, o)) =>
               /\ pc'[s] = "g_send"
               /\ pending'[s].site = "fold_no_chips"
               /\ pending'[s].msg
                    = [kind |-> "action", action |-> "bet", amount |-> <<-1>>]
               /\ UNCHANGED <<sent, counters, hasPerformedAllIn>>
       /\ \A w \in IoOutcomes(0) :
            (pc[s] = "g_send" /\ pending[s].site = "fold_no_chips"
               /\ gameLoop_Send(s, w)) =>
               /\ ~hasPerformedAllIn'[s]
               /\ allInsMade' = allInsMade
               /\ sent'[s].bet = sent[s].bet
               /\ w = "ok" =>
                    /\ foldsMade' = foldsMade + 1
                    /\ pc'[s] = "g_read" =>
                         \A ch \in 1 .. MaxChips :
                           TurnAction(hasPerformedAllIn'[s], ch).site = "all_in"]_vars

C9_Witness ==
  \E s \in Ids :
    /\ numPlayers = 1
    /\ pc[s] = "g_read"
    /\ ~hasPerformedAllIn[s]
    /\ foldsMade >= 1
    /\ allInsMade = 0

\* C10: the flag is never cleared; on an own betting turn with the flag set
\* the session builds a fold whatever its chips and writes it, foldsMade
\* grows by one when the write succeeds, and a session writes at most one
\* non-negative bet.
C10_FoldAfterAllIn ==
  /\ [](\A s \in Ids : sent[s].bet <= 1)
  /\ [][\A s \in Ids :
          /\ hasPerformedAllIn[s] => hasPerformedAllIn'[s]
          /\ \A o \in ReadOutcomes(s, 0) :
               (pc[s] = "g_read" /\ hasPerformedAllIn[s] /\ WireOwnTurn(s, o)
                  /\ gameLoop_Read(s, o)) =>
                  /\ pc'[s] = "g_send"
                  /\ pending'[s].site = "fold"
                  /\ pending'[s].msg
                       = [kind |-> "action", action |-> "bet", amount |-> <<-1>>]
                  /\ UNCHANGED <<sent, counters>>
          /\ \A w \in IoOutcomes(0) :
               (pc[s] = "g_send" /\ pending[s].site = "fold" /\ gameLoop_Send(s, w)) =>
                  /\ allInsMade' = allInsMade
                  /\ sent'[s].bet = sent[s].bet
                  /\ w = "ok" => foldsMade' = foldsMade + 1]_vars

C10_Witness ==
  \E s \in Ids :
    /\ numPlayers = 1
    /\ pc[s] = "g_read"
    /\ hasPerformedAllIn[s]
    /\ sent[s].bet = 1
    /\ allInsMade = 1
    /\ foldsMade = MaxFolds


\* C11: no step of any of the three programs decreases a counter.
C11_CountersMonotonic ==
  [][/\ successfulRegistrations' >= successfulRegistrations
     /\ failedRegistrations' >= failedRegistrations
     /\ gamesJoined' >= gamesJoined
     /\ allInsMade' >= allInsMade
     /\ foldsMade' >= foldsMade
     /\ requestsSent' >= requestsSent
     /\ successfulHits' >= successfulHits
     /\ failedHits' >= failedHits]_vars

C11_Witness ==
  /\ prog = "attack"
  /\ requestsSent = MaxRequests
  /\ successfulHits >= 1
  /\ failedHits >= 1
  /\ attackReport.printed


\* C12: in the game loop a line with no type and a non-zero code, whatever
\* the code, is passed over: the loop goes on from its top, so the session
\* is still in Interacting unless the activity time is over by then;
\* nothing is sent and no counter or flag changes.
C12_BareErrorContinues ==
  [][\A s \in Ids : \A o \in ReadOutcomes(s, 0) :
       (pc[s] = "g_read" /\ WireType(o) = "" /\ WireCode(o) # 0
          /\ gameLoop_Read(s, o)) =>
          /\ GameStep(s, hasPerformedAllIn[s], readServerMessage(o)).kind = "continue"
          /\ LoopTop(s, elapsed[s])
          /\ ~(elapsed[s] > GameActivityTimeout) => pc'[s] = "g_read"
          /\ UNCHANGED <<sent, counters, hasPerformedAllIn, pending>>]_vars

C12_Witness ==
  /\ prog = "play"
  /\ numPlayers = 1
  /\ pc[0] = "g_read"
  /\ elapsed[0] = GameActivityTimeout
  /\ dl[0] = ReadWriteTimeout
  /\ sent[0] = [join |-> 1, bet |-> 0, other |-> 0]
  /\ foldsMade = 0
  /\ failedRegistrations = 0

\* The line with none of the optional fields.
EmptyLine == [io |-> "ok", line |-> MkLine({}, "", 0, NoPlayer, 0)]

\* C13 as stated: wherever it is received, the line with no fields keeps
\* the session going and counts no failure.
C13_EmptyNeverFails ==
  [][\A s \in Ids :
       (pc[s] \in {"reg_read", "g_read"}
          /\ (register_Read(s, EmptyLine) \/ registerPlayer_Read(s, EmptyLine)
                \/ gameLoop_Read(s, EmptyLine))) =>
          /\ failedRegistrations' = failedRegistrations
          /\ ~(elapsed[s] > GameActivityTimeout) => Phase(pc'[s]) # "Terminated"]_vars

\* C13: the line with no fields decodes without error to type "" and code
\* 0.  In the game loop it is passed over: the loop goes on from its top and
\* no counter changes.  As the answer to a registration it is an unexpected
\* response: failedRegistrations grows by one and the session ends.
C13_EmptyAmbiguousInGame ==
  /\ [](/\ ~readServerMessage(EmptyLine).err
        /\ readServerMessage(EmptyLine).Type = ""
        /\ readServerMessage(EmptyLine).Code = 0)
  /\ [][\A s \in Ids :
          /\ (pc[s] = "g_read" /\ gameLoop_Read(s, EmptyLine)) =>
               /\ LoopTop(s, elapsed[s])
               /\ ~(elapsed[s] > GameActivityTimeout) => pc'[s] = "g_read"
               /\ UNCHANGED <<sent, counters, hasPerformedAllIn, pending>>
          /\ (pc[s] = "reg_read"
                /\ (register_Read(s, EmptyLine) \/ registerPlayer_Read(s, EmptyLine))) =>
               /\ failedRegistrations' = failedRegistrations + 1
               /\ successfulRegistrations' = successfulRegistrations
               /\ Phase(pc'[s]) = "Terminated"]_vars

C13_Witness ==
  /\ prog = "play"
  /\ numPlayers = MaxPlayers
  /\ \A s \in Launched :
       /\ pc[s] = "g_read"
       /\ elapsed[s] >= 1
       /\ dl[s] = ReadWriteTimeout
       /\ sent[s] = [join |-> 1, bet |-> 0, other |-> 0]
  /\ foldsMade = 0
  /\ failedRegistrations = 0

\* C14: a session that has registered counts no failure afterwards: not in
\* joinGame, not in any pass of the game loop, not in its deferred calls.
\* A read that fails or times out ends the session with nothing changed,
\* and once the activity time is over no further read is started: the pass
\* in progress is the last.
C14_NoFailureAfterRegistration ==
  [][\A s \in Ids :
       /\ \A w \in IoOutcomes(0) :
            /\ (pc[s] = "join" /\ joinGame(s, w)) =>
                 failedRegistrations' = failedRegistrations
            /\ (pc[s] = "g_send" /\ gameLoop_Send(s, w)) =>
                 /\ failedRegistrations' = failedRegistrations
                 /\ elapsed[s] > GameActivityTimeout => pc'[s] = "close"
       /\ \A o \in ReadOutcomes(s, 0) :
            (pc[s] = "g_read" /\ gameLoop_Read(s, o)) =>
               /\ failedRegistrations' = failedRegistrations
               /\ o.io # "ok" => pc'[s] = "close"
               /\ elapsed[s] > GameActivityTimeout => pc'[s] \in {"close", "g_send"}
               /\ o.io # "ok" => UNCHANGED <<sent, counters, hasPerformedAllIn>>
       /\ (Phase(pc[s]) = "Terminated" /\ pc'[s] # pc[s]) =>
            failedRegistrations' = failedRegistrations]_vars

C14_Witness ==
  /\ prog = "play"
  /\ numPlayers = 1
  /\ pc[0] = "exited"
  /\ gamesJoined = 1
  /\ allInsMade = 0
  /\ foldsMade = 0
  /\ failedRegistrations = 0
  /\ successfulRegistrations = 1


\* Sessions whose goroutine has started and not ended.
Running == {s \in Ids : pc[s] \notin {"idle", "exited"}}

\* C15: a connection is open only between the dial and the deferred Close,
\* so a session that has left its body has none; each launched session
\* holds one slot until its deferred receive and one unit of the WaitGroup
\* until its deferred Done, so both are given back exactly once on every
\* path and are zero when main has finished.
C15_CleanupOnEveryPath ==
  /\ \A s \in Ids :
       connOpen[s] <=> pc[s] \in {"register", "reg_read", "join", "g_read", "g_send", "close"}
  /\ ~semClosed =>
       sem = Cardinality(InFlight) + (IF mainpc = "go" THEN 1 ELSE 0)
  /\ wg = Cardinality(Running) + (IF mainpc \in {"acquire", "go"} THEN 1 ELSE 0)
  /\ mainpc = "done" =>
       /\ sem = 0
       /\ wg = 0
       /\ \A s \in Ids : ~connOpen[s]

C15_Witness ==
  /\ mainpc = "done"
  /\ prog = "play"
  /\ numPlayers = MaxPlayers
  /\ report.failed >= 1
  /\ report.joined >= 1
  /\ report.allIns >= 1

\* C16: a session writes at most one join, an action "join" that carries
\* no amount, and only when registered; no action of any shape other than
\* that join, a bet or a fold is ever written; a failed join send ends the
\* session with gamesJoined unchanged; a join sent increments gamesJoined
\* and the session is at once in the game loop, its activity clock at
\* zero, reading, without waiting for an answer to the join.
C16_JoinOnce ==
  /\ [](/\ \A s \in Ids : sent[s].join <= 1
        /\ \A s \in Ids : sent[s].other = 0
        /\ \A s \in Ids : sent[s].join = 1 => Rank(pc[s]) >= 4
        /\ \A s \in Ids : pc[s] = "join" => sent[s] = NoSent
        /\ gamesJoined <= successfulRegistrations)
  /\ [][\A s \in Ids : \A w \in IoOutcomes(0) :
          (pc[s] = "join" /\ joinGame(s, w)) =>
             IF w = "ok"
             THEN /\ sent'[s] = [join |-> 1, bet |-> 0, other |-> 0]
                  /\ gamesJoined' = gamesJoined + 1
                  /\ pc'[s] = "g_read"
                  /\ elapsed'[s] = 0
                  /\ dl'[s] = ReadWriteTimeout
             ELSE /\ sent'[s] = NoSent
                  /\ gamesJoined' = gamesJoined
                  /\ pc'[s] = "close"]_vars

C16_Witness ==
  /\ prog = "play"
  /\ numPlayers = 1
  /\ pc[0] = "g_read"
  /\ elapsed[0] = 0
  /\ dl[0] = ReadWriteTimeout
  /\ sent[0] = [join |-> 1, bet |-> 0, other |-> 0]
  /\ gamesJoined = 1
  /\ successfulRegistrations = 1


\* C19: main launches the sessions 0, 1, ... in order and is past its loop
\* only when numPlayers of them are launched; a step of a session leaves
\* main's position and loop variable, and every other session, as they
\* were, so no outcome of a session stops or diverts the launch loop, which
\* waits for nothing but a free slot.
C19_FailuresStayLocal ==
  /\ [](/\ \A s \in Ids : pc[s] # "idle" <=> s < i
        /\ i <= numPlayers
        /\ mainpc \in {"wait", "report", "done"} => i = numPlayers
        /\ mainpc \in {"add", "acquire", "go"} => i < numPlayers
        /\ mainpc = "add" => ENABLED MainAdd
        /\ (mainpc = "acquire" /\ sem < maxConc) => ENABLED MainAcquire
        /\ mainpc = "go" => ENABLED MainGo)
  /\ [][\A s \in Ids :
          (pc[s] # "idle" /\ Session(s)) =>
             /\ mainpc' = mainpc
             /\ i' = i
             /\ numPlayers' = numPlayers
             /\ \A t \in Ids \ {s} :
                  /\ pc'[t] = pc[t]
                  /\ dl'[t] = dl[t]
                  /\ elapsed'[t] = elapsed[t]
                  /\ sent'[t] = sent[t]
                  /\ connOpen'[t] = connOpen[t]
                  /\ hasPerformedAllIn'[t] = hasPerformedAllIn[t]
                  /\ pending'[t] = pending[t]]_vars

C19_Witness ==
  /\ numPlayers = MaxPlayers
  /\ maxConc = 1
  /\ pc[0] = "exited"
  /\ failedRegistrations = 1
  /\ successfulRegistrations = 0
  /\ pc[MaxPlayers - 1] = "dial"

\* C20: the counters respect the order of the stages: registrations counted
\* do not exceed the sessions launched, joins do not exceed the successful
\* registrations, all-ins do not exceed the joins.
C20_StageOrder ==
  /\ successfulRegistrations + failedRegistrations <= i
  /\ i = Cardinality({s \in Ids : pc[s] # "idle"})
  /\ gamesJoined <= successfulRegistrations
  /\ allInsMade <= gamesJoined

C20_Witness ==
  /\ prog = "play"
  /\ numPlayers = MaxPlayers
  /\ successfulRegistrations = numPlayers
  /\ gamesJoined = numPlayers
  /\ allInsMade = numPlayers


\* The attack workers main has started.
Workers == {w \in Ids : w < numAttackers}

\* C17: stopSignal is closed once, and only when the attack time is over;
\* main, once in its ticker loop, does close it; after that every worker
\* returns; and main is past wg.Wait, and prints the counters as they then
\* are for good, only when every worker has returned.
C17_StopThenDrainThenReport ==
  /\ [][stopClosed' # stopClosed =>
          (~stopClosed /\ stopClosed' /\ attackClock > AttackDuration)]_vars
  /\ (mainpc = "a_loop") ~> stopClosed
  /\ stopClosed ~> (\A w \in Workers : pc[w] = "exited")
  /\ [](mainpc \in {"report", "done"} => \A w \in Workers : pc[w] = "exited")
  /\ [](attackReport.printed =>
          /\ stopClosed
          /\ attackReport.sent = requestsSent
          /\ attackReport.successful = successfulHits
          /\ attackReport.failed = failedHits)

C17_Witness ==
  /\ prog = "attack"
  /\ numAttackers = MaxPlayers
  /\ attackReport.printed
  /\ attackReport.sent > sentAtStop
  /\ attackReport.successful >= 1
  /\ \A w \in Workers : pc[w] = "exited"

\* C18: a worker returns only from the select at the top of its loop, and
\* once stopSignal is closed no worker goes from the select on to a
\* request; so after the close requestsSent grows by at most one per
\* worker, for the workers that were past the select.
C18_StopSeenAtLoopTop ==
  /\ [][\A w \in Ids :
          /\ pc'[w] = "done" => pc[w] \in {"select", "done"}
          /\ stopClosed => ~(pc[w] = "select" /\ pc'[w] = "count")
          /\ (stopClosed /\ pc[w] = "select" /\ pc'[w] # pc[w]) => pc'[w] = "done"]_vars
  /\ [](stopClosed => requestsSent <= sentAtStop + numAttackers)
  /\ [](stopClosed =>
          requestsSent - sentAtStop
            <= numAttackers - Cardinality({w \in Workers : pc[w] = "count"}))

C18_Witness ==
  /\ prog = "attack"
  /\ numAttackers = MaxPlayers
  /\ stopClosed
  /\ requestsSent = sentAtStop + numAttackers
  /\ \A w \in Workers : pc[w] = "exited"


\* The positions in which a session is blocked in a write or in a read.
Operating == {"register", "reg_read", "join", "g_read", "g_send"}

\* C21 as stated: every step of a session that starts a write or a read, in
\* the playing harness and in the register-only program alike, starts it
\* under a deadline armed for it at that moment, so with time still to run.
C21_FreshDeadlineEveryOperation ==
  [][\A s \in Ids :
       (pc[s] # "idle" /\ pc'[s] \in Operating /\ Session(s)) =>
          IF prog = "play" THEN dl'[s] = ReadWriteTimeout ELSE dl'[s] > 0]_vars

\* C21: in the playing harness every write and every read starts under a
\* deadline armed for it alone (the registration, the read of its answer,
\* the join, every read of the game loop and every bet or fold), whatever
\* time the connection has been open.  The register-only program arms one
\* deadline of twice its read/write timeout after the dial; the write and
\* the read share it, the read inheriting what the write left.
C21_FreshDeadlinePerReadInPlay ==
  [][\A s \in Ids :
       /\ (prog = "play" /\ pc[s] # "idle" /\ pc'[s] \in Operating /\ Session(s)) =>
            dl'[s] = ReadWriteTimeout
       /\ \A setup \in {"ok"} :
            (pc[s] = "dial" /\ registerPlayer_Dial(s, "ok", setup)) =>
               dl'[s] = RegisterDeadline
       /\ (pc[s] = "register" /\ registerPlayer_Write(s, "ok")) =>
            dl'[s] = dl[s]]_vars

C21_Witness ==
  /\ prog = "play"
  /\ \E s \in Ids :
       /\ pc[s] = "g_read"
       /\ elapsed[s] = GameActivityTimeout
       /\ dl[s] = ReadWriteTimeout
       /\ hasPerformedAllIn[s]


\* C22 as stated: no session is in the game loop, reading or writing, once
\* more than the activity timeout has passed since it entered the loop.
C22_NeverInteractingAfterTimeout ==
  \A s \in Ids : InGameLoop(s) => elapsed[s] <= GameActivityTimeout

\* C22: the activity timeout is tested at the top of the loop only, so it
\* bounds the start of a pass, not its end: the read a session is blocked
\* in was started no later than the activity timeout after entry into the
\* loop, a bet or fold being written follows such a read, and the session
\* is in the loop for at most the activity timeout plus the read/write
\* timeout of that last read plus the read/write timeout of its write.
C22_NoPassStartsAfterTimeout ==
  \A s \in Ids :
    /\ pc[s] = "g_read" =>
         elapsed[s] - (ReadWriteTimeout - dl[s]) <= GameActivityTimeout
    /\ pc[s] = "g_send" =>
         elapsed[s] - (ReadWriteTimeout - dl[s]) <= GameActivityTimeout + ReadWriteTimeout
    /\ InGameLoop(s) => elapsed[s] <= GameActivityTimeout + 2 * ReadWriteTimeout

C22_Witness ==
  /\ prog = "play"
  /\ \E s \in Ids :
       /\ pc[s] = "g_send"
       /\ elapsed[s] = GameActivityTimeout + 2 * ReadWriteTimeout
       /\ dl[s] = 0

\* C23: in the game loop a read that fails (error, EOF, deadline passed), a
\* line that does not decode, and a line of type event_game_over or
\* event_player_leaderboard_entry_end each make the loop return in that
\* pass: the session goes to its deferred calls with the connection still to
\* be closed, nothing is written and no counter or flag changes.
C23_ReadErrorOrTerminalEnds ==
  [][\A s \in Ids : \A o \in ReadOutcomes(s, 0) :
       (pc[s] = "g_read"
          /\ (o.io # "ok" \/ ~o.line.wf \/ WireType(o) \in {EventGameOver, EventEntryEnd})
          /\ gameLoop_Read(s, o)) =>
          /\ GameStep(s, hasPerformedAllIn[s], readServerMessage(o)).kind = "return"
          /\ pc'[s] = "close"
          /\ connOpen'[s]
          /\ UNCHANGED <<sent, counters, hasPerformedAllIn, pending>>]_vars

C23_Witness ==
  /\ prog = "play"
  /\ numPlayers = 1
  /\ pc[0] = "close"
  /\ connOpen[0]
  /\ hasPerformedAllIn[0]
  /\ sent[0] = [join |-> 1, bet |-> 1, other |-> 0]
  /\ allInsMade = 1
  /\ foldsMade = 1
  /\ failedRegistrations = 0

\* C24: in the game loop a betting turn of another player, and a line of
\* any other type that is neither empty nor terminal (event_pot_won among
\* them), is passed over: nothing is written, no counter and no flag
\* changes, and the loop goes on from its top, so the session is still in
\* Interacting unless the activity time is over by then.
C24_OtherEventsIgnored ==
  [][\A s \in Ids : \A o \in ReadOutcomes(s, 0) :
       (pc[s] = "g_read"
          /\ WireType(o) \in EventTypes \ {EventGameOver, EventEntryEnd}
          /\ ~WireOwnTurn(s, o)
          /\ gameLoop_Read(s, o)) =>
          /\ GameStep(s, hasPerformedAllIn[s], readServerMessage(o)).kind = "continue"
          /\ LoopTop(s, elapsed[s])
          /\ ~(elapsed[s] > GameActivityTimeout) => pc'[s] = "g_read"
          /\ UNCHANGED <<sent, counters, hasPerformedAllIn, pending>>]_vars

C24_Witness ==
  /\ prog = "play"
  /\ numPlayers = MaxPlayers
  /\ \A s \in Launched :
       /\ pc[s] = "g_read"
       /\ hasPerformedAllIn[s]
       /\ elapsed[s] >= 2
       /\ dl[s] = ReadWriteTimeout
  /\ allInsMade = MaxPlayers
  /\ foldsMade = 0


\* The all-in bets written by the sessions of S.
RECURSIVE BetsSent(_)
BetsSent(S) ==
  IF S = {} THEN 0
  ELSE LET s == CHOOSE x \in S : TRUE IN sent[s].bet + BetsSent(S \ {s})

\* C25: when sendJSON fails on an own betting turn (an error or the write
\* deadline passing), for the all-in bet and for either fold, the loop
\* returns and nothing is counted: allInsMade, foldsMade and the flag are as
\* before.  So allInsMade is the number of all-in bets written, and a
\* session's flag is set exactly when its all-in was written.
C25_FailedSendCountsNothing ==
  /\ [](/\ allInsMade = BetsSent(Ids)
        /\ \A s \in Ids : hasPerformedAllIn[s] <=> sent[s].bet = 1)
  /\ [][\A s \in Ids : \A w \in IoOutcomes(0) \ {"ok"} :
          (pc[s] = "g_send" /\ gameLoop_Send(s, w)) =>
             /\ pending[s].site \in {"all_in", "fold_no_chips", "fold"}
             /\ pc'[s] = "close"
             /\ UNCHANGED <<sent, counters, hasPerformedAllIn>>]_vars

C25_Witness ==
  /\ prog = "play"
  /\ numPlayers = 1
  /\ pc[0] = "close"
  /\ connOpen[0]
  /\ ~hasPerformedAllIn[0]
  /\ sent[0] = [join |-> 1, bet |-> 0, other |-> 0]
  /\ gamesJoined = 1
  /\ allInsMade = 0
  /\ foldsMade = 0
  /\ failedRegistrations = 0

\* C26: the only action messages written are the join, which carries no
\* amount, and bets, which always carry one: the write of joinGame is
\* counted as a join without an amount and no session ever writes a join
\* with an amount or a bet without one; on an own betting turn the bet
\* built and then written carries -1, or the chips of that turn's event
\* when these are more than zero; no bet carries 0.
C26_OutboundMessageShapes ==
  /\ [](\A s \in Ids :
          /\ sent[s].other = 0
          /\ pc[s] = "g_send" =>
               /\ pending[s].msg.kind = "action"
               /\ pending[s].msg.action = "bet"
               /\ Len(pending[s].msg.amount) = 1
               /\ pending[s].msg.amount[1] = -1 \/ pending[s].msg.amount[1] > 0)
  /\ [][\A s \in Ids :
          /\ (pc[s] = "join" /\ joinGame(s, "ok")) =>
               /\ sent'[s] = [sent[s] EXCEPT !.join = @ + 1]
               /\ sent'[s].other = 0
          /\ \A o \in ReadOutcomes(s, 0) :
               (pc[s] = "g_read" /\ WireOwnTurn(s, o) /\ gameLoop_Read(s, o)) =>
                  /\ pc'[s] = "g_send"
                  /\ pending'[s].msg.amount \in {<<-1>>, <<WireChips(o)>>}
                  /\ sent'[s] = sent[s]
          /\ (pc[s] = "g_send" /\ gameLoop_Send(s, "ok")) =>
               /\ sent'[s] = Written(sent[s], pending[s].msg)
               /\ sent'[s].join = sent[s].join]_vars

C26_Witness ==
  /\ prog = "play"
  /\ numPlayers = MaxPlayers
  /\ \A s \in Launched : sent[s] = [join |-> 1, bet |-> 1, other |-> 0]
  /\ foldsMade = MaxFolds
  /\ allInsMade = MaxPlayers


\* The workers whose request is counted and not yet answered.
Requesting == {w \in Workers : pc[w] = "get"}

\* C27: in the attacker a request is counted in requestsSent before it is
\* made and in exactly one of successfulHits and failedHits when it
\* returns: requestsSent is the sum of the two plus the requests in flight,
\* at most one per worker, and the counters printed satisfy
\* requestsSent = successfulHits + failedHits.
C27_EveryRequestCountedOnce ==
  /\ requestsSent = successfulHits + failedHits + Cardinality(Requesting)
  /\ successfulHits + failedHits <= requestsSent
  /\ requestsSent <= successfulHits + failedHits + numAttackers
  /\ attackReport.printed =>
       /\ attackReport.sent = attackReport.successful + attackReport.failed
       /\ attackReport.sent = requestsSent
       /\ attackReport.successful = successfulHits
       /\ attackReport.failed = failedHits

C27_Witness ==
  /\ prog = "attack"
  /\ numAttackers = MaxPlayers
  /\ attackReport.printed
  /\ attackReport.sent = MaxRequests + 1
  /\ attackReport.successful >= 1
  /\ attackReport.failed >= 2

\* The sessions whose connection is open.
Connected == {s \in Ids : connOpen[s]}

\* C28: a session that ends closes its connection, then gives back its
\* slot, then calls Done, each in a step of its own and in that order.  So
\* a connection is open only in a session that holds a slot, there are never
\* more open connections than maxConcurrency, and once main is past
\* wg.Wait no slot is held, no connection is open and every session has
\* ended.
C28_CloseReleaseDoneOrder ==
  /\ [](/\ Connected \subseteq InFlight
        /\ Cardinality(Connected) <= maxConc
        /\ mainpc \in {"report", "done"} =>
             /\ sem = 0
             /\ Connected = {}
             /\ \A s \in Launched : pc[s] = "exited")
  /\ [][/\ \A s \in Ids :
             /\ (connOpen[s] /\ ~connOpen'[s]) =>
                  /\ pc[s] = "close" /\ pc'[s] = "release"
                  /\ sem' = sem /\ wg' = wg
             /\ (pc[s] = "release" /\ pc'[s] # "release") =>
                  /\ ~connOpen[s] /\ pc'[s] = "done"
                  /\ wg' = wg
             /\ (pc[s] # "exited" /\ pc'[s] = "exited") =>
                  /\ pc[s] = "done" /\ wg' = wg - 1
        /\ sem' < sem => \E s \in Ids : pc[s] = "release" /\ pc'[s] = "done"
        /\ wg' < wg => \E s \in Ids : pc[s] = "done" /\ pc'[s] = "exited"]_vars

C28_Witness ==
  /\ numPlayers = MaxPlayers
  /\ maxConc = 1
  /\ pc[0] = "done"
  /\ connOpen[1]
  /\ sem = 1
  /\ wg = MaxPlayers

====
